---- MODULE Spec2Model ----
(***************************************************************************)
(* Model of the fluvio wire decoder (fluvio-protocol core/decoder.rs) and  *)
(* of the tagged union ObjectCreateRequest (fluvio-sc-schema               *)
(* objects/create.rs).                                                     *)
(*                                                                         *)
(* A cursor (T: Buf) is modelled by the sequence of bytes it still has to  *)
(* yield: remaining() is its length and a read drops a prefix.             *)
(*                                                                         *)
(* Values: bool is a BOOLEAN; i8, u8, i16, u16, i32 are integers; u32, u64 *)
(* and i64 exceed 32-bit signed arithmetic and are kept as their base      *)
(* 65536 digits, most significant first (the leading digit of an i64       *)
(* carries the sign); String is the sequence of its UTF-8 bytes; Vec is a  *)
(* sequence; Option is <<>> (None) or <<v>> (Some(v)); BTreeMap is a       *)
(* function from keys to values; structs are records.                      *)
(*                                                                         *)
(* Types are written as tuples of names in prefix form: <<"i32">>,         *)
(* <<"Vec", "String">>, <<"Option", "u16">>, <<"BTreeMap", "u8", "u8">>.   *)
(***************************************************************************)
EXTENDS Integers, Sequences, FiniteSets

VARIABLES
    src,      \* the caller's cursor: the bytes not yet consumed
    op,       \* the last operation: "new", "decode_from", "decode",
              \* "decode_varint_from", "encode", "cursor"
    ty,       \* type of the last decode_from call
    version,  \* version argument of the last call
    before,   \* the cursor as it was when the last decode_from call started
    res,      \* outcome of the last decode call: [err, self, calls], self
              \* being the value decoded into as the call left it
    target,   \* the value the last decode call decoded into, as it was before
    dest,     \* the destination buffer of encode: [buf, cap], the bytes
              \* written so far and the bytes it has room for
    enc       \* <<>>, or <<[self, version, err, size]>>: the request last
              \* encoded, the version it was encoded with, what encode
              \* returned and what write_size reported

vars == <<src, op, ty, version, before, res, target, dest, enc>>

----------------------------------------------------------------------------
(* Bounds of the model *)

\* longest free tail of an input buffer
MaxBody == 4

\* byte values input buffers are made of
ByteVals == {0, 1, 2, 128, 255}

\* fixed openings of input buffers: 32-bit counts (zero, positive, negative),
\* a 16-bit count, and a 16-bit length with the lead byte of a two-byte
\* UTF-8 character
Headers == {<<>>, <<0, 0, 0, 0>>, <<0, 0, 0, 1>>, <<0, 0, 0, 2>>,
            <<255, 255, 255, 255>>, <<0, 2>>, <<0, 2, 194>>}

\* versions a call is made with
Versions == {0, 1, 2, 6, 7}

RECURSIVE SeqsUpTo(_, _)
SeqsUpTo(S, n) ==
    IF n = 0 THEN {<<>>}
    ELSE LET shorter == SeqsUpTo(S, n - 1)
         IN  shorter \cup {Append(s, x) : s \in shorter, x \in S}

\* the varint inputs of the decoder's tests
VarintTests == {<<126>>, <<6, 100, 111, 103>>, <<6, 100, 111>>,
                <<6, 100, 111, 103, 0>>}

Inputs ==
    {h \o b : h \in Headers, b \in SeqsUpTo(ByteVals, MaxBody)} \cup VarintTests

----------------------------------------------------------------------------
(* bytes::Buf *)

remaining(s) == Len(s)

advance(s, n) == SubSeq(s, n + 1, Len(s))

\* Buf::take(n): a view of at most n bytes
take(s, n) == SubSeq(s, 1, IF n < Len(s) THEN n ELSE Len(s))

get_u8(s) == s[1]

get_i8(s) == IF s[1] >= 128 THEN s[1] - 256 ELSE s[1]

\* mutant: the two bytes read in little-endian order
get_u16_le(s) == s[2] * 256 + s[1]

get_u16(s) == s[1] * 256 + s[2]

get_i16(s) == get_i8(s) * 256 + s[2]

get_i32(s) == ((get_i8(s) * 256 + s[2]) * 256 + s[3]) * 256 + s[4]

get_u32(s) == <<get_u16(s), get_u16(advance(s, 2))>>

get_u64(s) == get_u32(s) \o get_u32(advance(s, 4))

get_i64(s) == <<get_i16(s)>> \o Tail(get_u64(s))

----------------------------------------------------------------------------
(* Results *)

NoError == "none"

Ok(self, s, calls) == [err |-> NoError, self |-> self, src |-> s, calls |-> calls]

Err(kind, self, s, calls) == [err |-> kind, self |-> self, src |-> s, calls |-> calls]

\* a child call as its caller saw it
Entry(t, v, s, r) ==
    [ty |-> t, version |-> v, before |-> s, err |-> r.err, val |-> r.self,
     after |-> r.src]

----------------------------------------------------------------------------
(* impl Decoder for bool, i8, u8, i16, u16, i32, u32, u64, i64 *)

\* mutant: any non-zero byte is taken as true
bool_decode_truthy(self, s, v) ==
    IF remaining(s) < 1 THEN Err("UnexpectedEof", self, s, <<>>)
    ELSE Ok(get_u8(s) # 0, advance(s, 1), <<>>)

bool_decode(self, s, v) ==
    IF remaining(s) < 1 THEN Err("UnexpectedEof", self, s, <<>>)
    ELSE LET value == get_u8(s)
             rest == advance(s, 1)
         IN  CASE value = 0 -> Ok(FALSE, rest, <<>>)
               [] value = 1 -> Ok(TRUE, rest, <<>>)
               [] OTHER -> Err("InvalidData", self, rest, <<>>)

i8_decode(self, s, v) ==
    IF remaining(s) < 1 THEN Err("UnexpectedEof", self, s, <<>>)
    ELSE Ok(get_i8(s), advance(s, 1), <<>>)

u8_decode(self, s, v) ==
    IF remaining(s) < 1 THEN Err("UnexpectedEof", self, s, <<>>)
    ELSE Ok(get_u8(s), advance(s, 1), <<>>)

i16_decode(self, s, v) ==
    IF remaining(s) < 2 THEN Err("UnexpectedEof", self, s, <<>>)
    ELSE Ok(get_i16(s), advance(s, 2), <<>>)

u16_decode(self, s, v) ==
    IF remaining(s) < 2 THEN Err("UnexpectedEof", self, s, <<>>)
    ELSE Ok(get_u16(s), advance(s, 2), <<>>)

\* i32::decode giving up on a short input after draining it and resetting
\* the target
i32_decode_drain(self, s, v) ==
    IF remaining(s) < 4 THEN Err("UnexpectedEof", 0, <<>>, <<>>)
    ELSE Ok(get_i32(s), advance(s, 4), <<>>)

i32_decode(self, s, v) ==
    IF remaining(s) < 4 THEN Err("UnexpectedEof", self, s, <<>>)
    ELSE Ok(get_i32(s), advance(s, 4), <<>>)

u32_decode(self, s, v) ==
    IF remaining(s) < 4 THEN Err("UnexpectedEof", self, s, <<>>)
    ELSE Ok(get_u32(s), advance(s, 4), <<>>)

u64_decode(self, s, v) ==
    IF remaining(s) < 8 THEN Err("UnexpectedEof", self, s, <<>>)
    ELSE Ok(get_u64(s), advance(s, 8), <<>>)

i64_decode(self, s, v) ==
    IF remaining(s) < 8 THEN Err("UnexpectedEof", self, s, <<>>)
    ELSE Ok(get_i64(s), advance(s, 8), <<>>)

----------------------------------------------------------------------------
(* Varints: varint_decode, impl DecoderVarInt for i64, Vec<u8> and         *)
(* Option<Vec<u8>>. An i64 is kept as its four base 65536 digits.          *)

\* how many bytes the varint at the front of s takes: the position of its
\* first byte without the continuation bit, 0 if there is none
RECURSIVE varint_size(_)
varint_size(s) ==
    IF s = <<>> THEN 0
    ELSE IF s[1] < 128 THEN 1
    ELSE LET n == varint_size(Tail(s)) IN IF n = 0 THEN 0 ELSE n + 1

\* bit i of num, the 7-bit groups of the first n bytes of s put together
\* least significant group first (num |= (b & 0x7f) << shift)
num_bit(s, n, i) ==
    IF i \div 7 < n /\ i < 64
    THEN ((s[i \div 7 + 1] % 128) \div (2 ^ (i % 7))) % 2
    ELSE 0

\* bit i of (num >> 1) ^ -(num & 1), the zig-zag decoding of num
zigzag_bit(s, n, i) ==
    (num_bit(s, n, IF i < 63 THEN i + 1 ELSE 63) + num_bit(s, n, 0)) % 2

\* the number made of the k bits of the zig-zag decoding from bit lo up
RECURSIVE zigzag_bits(_, _, _, _)
zigzag_bits(s, n, lo, k) ==
    IF k = 0 THEN 0
    ELSE zigzag_bit(s, n, lo) + 2 * zigzag_bits(s, n, lo + 1, k - 1)

\* varint_decode(buf) -> (value, bytes read): reads bytes up to the first
\* one without the continuation bit; UnexpectedEof if the cursor runs out
varint_decode(s) ==
    LET n == varint_size(s)
    IN  IF n = 0 THEN Err("UnexpectedEof", <<>>, <<>>, <<>>)
        ELSE LET value == <<zigzag_bits(s, n, 48, 16)
                              - 65536 * zigzag_bit(s, n, 63),
                            zigzag_bits(s, n, 32, 16),
                            zigzag_bits(s, n, 16, 16),
                            zigzag_bits(s, n, 0, 16)>>
             IN  Ok(<<value, n>>, advance(s, n), <<>>)

\* mutant: the number of bytes read is returned in place of the value
i64_decode_varint_from_size(s) ==
    LET r == varint_decode(s)
    IN  IF r.err # NoError THEN Err(r.err, <<>>, r.src, <<>>)
        ELSE Ok(<<0, 0, 0, r.self[2]>>, r.src, <<>>)

i64_decode_varint_from(s) ==
    LET r == varint_decode(s)
    IN  IF r.err # NoError THEN Err(r.err, <<>>, r.src, <<>>)
        ELSE Ok(r.self[1], r.src, <<>>)

\* len < 1, len < 0 and len == 0 for an i64 or isize
i64_lt_1(len) == len[1] < 0 \/ len = <<0, 0, 0, 0>>

i64_lt_0(len) == len[1] < 0

i64_eq_0(len) == len = <<0, 0, 0, 0>>

\* n == len as usize, for the length n of a vector
usize_eq(n, len) ==
    len[1] = 0 /\ len[2] = 0 /\ len[3] = n \div 65536 /\ len[4] = n % 65536

\* src.take(len as usize) for a positive len: the next len bytes, or all
\* that remain when there are fewer (a len of 2^31 or more exceeds the
\* length of any cursor here)
take_usize(s, len) ==
    IF len[1] = 0 /\ len[2] = 0 /\ len[3] < 32768
    THEN take(s, len[3] * 65536 + len[4])
    ELSE take(s, remaining(s))

\* mutant: the whole rest of the cursor is read, not at most len bytes
Vec_u8_decode_varint_from_all(s) ==
    LET len == i64_decode_varint_from(s)
    IN  IF len.err # NoError THEN Err(len.err, <<>>, len.src, <<>>)
        ELSE IF i64_lt_1(len.self) THEN Ok(<<>>, len.src, <<>>)
        ELSE LET vec == len.src
             IN  IF ~usize_eq(Len(vec), len.self)
                 THEN Err("UnexpectedEof", vec, <<>>, <<>>)
                 ELSE Ok(vec, <<>>, <<>>)

Vec_u8_decode_varint_from(s) ==
    LET len == i64_decode_varint_from(s)
    IN  IF len.err # NoError THEN Err(len.err, <<>>, len.src, <<>>)
        ELSE IF i64_lt_1(len.self) THEN Ok(<<>>, len.src, <<>>)
        ELSE LET vec == take_usize(len.src, len.self)
                 rest == advance(len.src, Len(vec))
             IN  IF ~usize_eq(Len(vec), len.self)
                 THEN Err("UnexpectedEof", vec, rest, <<>>)
                 ELSE Ok(vec, rest, <<>>)

decode_option_vec_u(array, s, len) ==
    IF i64_lt_0(len) THEN Ok(<<>>, s, <<>>)
    ELSE IF i64_eq_0(len) THEN Ok(<< <<>> >>, s, <<>>)
    ELSE LET value == take_usize(s, len)
             rest == advance(s, Len(value))
         IN  IF ~usize_eq(Len(value), len)
             THEN Err("UnexpectedEof", array, rest, <<>>)
             ELSE Ok(<<value>>, rest, <<>>)

Option_Vec_u8_decode_varint_from(s) ==
    LET len == i64_decode_varint_from(s)
    IN  IF len.err # NoError THEN Err(len.err, <<>>, len.src, <<>>)
        ELSE decode_option_vec_u(<<>>, len.src, len.self)

----------------------------------------------------------------------------
(* Types, defaults and the generic entry points *)

\* element types the generic containers are instantiated with
VecElems == {<<"u8">>, <<"bool">>, <<"String">>}

OptionElems == {<<"u16">>, <<"String">>}

MapTypes == {<<"BTreeMap", "u8", "u8">>, <<"BTreeMap", "u8", "bool">>}

Variants == {"Topic", "CustomSpu", "SmartModule", "ManagedConnector",
             "SpuGroup", "TableFormat", "DerivedStream"}

\* the tag of each payload type (CreatableAdminSpec::CREATE_TYPE)
CREATE_TYPE(variant) ==
    CASE variant = "Topic" -> 0
      [] variant = "CustomSpu" -> 1
      [] variant = "SpuGroup" -> 2
      [] variant = "ManagedConnector" -> 3
      [] variant = "SmartModule" -> 4
      [] variant = "TableFormat" -> 5
      [] variant = "DerivedStream" -> 10

\* the wire type standing for each variant's payload schema
SpecType(variant) ==
    CASE variant = "Topic" -> <<"String">>
      [] variant = "CustomSpu" -> <<"i32">>
      [] variant = "SmartModule" -> <<"Vec", "u8">>
      [] variant = "ManagedConnector" -> <<"String">>
      [] variant = "SpuGroup" -> <<"u16">>
      [] variant = "TableFormat" -> <<"Option", "u16">>
      [] variant = "DerivedStream" -> <<"bool">>

RECURSIVE Default(_)
Default(t) ==
    CASE t[1] = "bool" -> FALSE
      [] t[1] \in {"i8", "u8", "i16", "u16", "i32"} -> 0
      [] t[1] = "u32" -> <<0, 0>>
      [] t[1] \in {"u64", "i64"} -> <<0, 0, 0, 0>>
      [] t[1] \in {"String", "Vec", "Option", "BTreeMap"} -> <<>>
      [] t[1] = "TestRecord" -> [value |-> 0, value2 |-> 0]
      [] t[1] = "CommonCreateRequest" ->
            [name |-> <<>>, dry_run |-> FALSE, timeout |-> <<>>]
      [] t[1] = "ObjectCreateRequest" ->
            [variant |-> "Topic", spec |-> Default(SpecType("Topic"))]

RECURSIVE Decode(_, _, _, _)

\* Decoder::decode_from: decode into a default value
decode_from(t, s, v) == Decode(t, Default(t), s, v)

----------------------------------------------------------------------------
(* impl Decoder for String *)

Cont(b) == b >= 128 /\ b <= 191

\* core::str::from_utf8(..).is_ok(), as read_to_string applies it
RECURSIVE Utf8Valid(_)
Utf8Valid(s) ==
    IF s = <<>> THEN TRUE
    ELSE LET b == s[1]
             n == Len(s)
         IN  CASE b < 128 -> Utf8Valid(advance(s, 1))
               [] b >= 194 /\ b <= 223 ->
                    n >= 2 /\ Cont(s[2]) /\ Utf8Valid(advance(s, 2))
               [] b = 224 ->
                    n >= 3 /\ s[2] >= 160 /\ s[2] <= 191 /\ Cont(s[3])
                    /\ Utf8Valid(advance(s, 3))
               [] (b >= 225 /\ b <= 236) \/ b = 238 \/ b = 239 ->
                    n >= 3 /\ Cont(s[2]) /\ Cont(s[3]) /\ Utf8Valid(advance(s, 3))
               [] b = 237 ->
                    n >= 3 /\ s[2] >= 128 /\ s[2] <= 159 /\ Cont(s[3])
                    /\ Utf8Valid(advance(s, 3))
               [] b = 240 ->
                    n >= 4 /\ s[2] >= 144 /\ s[2] <= 191 /\ Cont(s[3]) /\ Cont(s[4])
                    /\ Utf8Valid(advance(s, 4))
               [] b >= 241 /\ b <= 243 ->
                    n >= 4 /\ Cont(s[2]) /\ Cont(s[3]) /\ Cont(s[4])
                    /\ Utf8Valid(advance(s, 4))
               [] b = 244 ->
                    n >= 4 /\ s[2] >= 128 /\ s[2] <= 143 /\ Cont(s[3]) /\ Cont(s[4])
                    /\ Utf8Valid(advance(s, 4))
               [] OTHER -> FALSE

\* mutant: a short read is not reported
decode_string_short(len, s) ==
    LET read == take(s, len)
        rest == advance(s, Len(read))
    IN  IF ~Utf8Valid(read) THEN Err("InvalidData", <<>>, rest, <<>>)
        ELSE Ok(read, rest, <<>>)

\* src.take(len).reader().read_to_string(&mut value): reads the view to its
\* end, then fails with InvalidData unless what it read is UTF-8
decode_string(len, s) ==
    LET read == take(s, len)
        rest == advance(s, Len(read))
    IN  IF ~Utf8Valid(read) THEN Err("InvalidData", <<>>, rest, <<>>)
        ELSE IF Len(read) # len THEN Err("UnexpectedEof", <<>>, rest, <<>>)
        ELSE Ok(read, rest, <<>>)

String_decode(self, s, v) ==
    IF remaining(s) < 2 THEN Err("UnexpectedEof", self, s, <<>>)
    ELSE LET len == get_i16(s)
             rest == advance(s, 2)
         IN  IF len <= 0 THEN Ok(self, rest, <<>>)
             ELSE LET value == decode_string(len, rest)
                  IN  IF value.err # NoError
                      THEN Err(value.err, self, value.src, <<>>)
                      ELSE Ok(value.self, value.src, <<>>)

----------------------------------------------------------------------------
(* impl Decoder for Vec<M>, Option<M>, BTreeMap<K, V> *)

RECURSIVE decode_vec(_, _, _, _, _)

\* mutant: each decoded element is put in front of the earlier ones
decode_vec_front(M, len, item, s, v) ==
    IF len <= 0 THEN Ok(item, s, <<>>)
    ELSE LET value == decode_from(M, s, v)
             e == Entry(M, v, s, value)
         IN  IF value.err # NoError THEN Err(value.err, item, value.src, <<e>>)
             ELSE LET r == decode_vec(M, len - 1, <<value.self>> \o item,
                                      value.src, v)
                  IN  [r EXCEPT !.calls = <<e>> \o r.calls]

\* mutant: an element's error is reported as InvalidData whatever it was
decode_vec_wrap(M, len, item, s, v) ==
    IF len <= 0 THEN Ok(item, s, <<>>)
    ELSE LET value == decode_from(M, s, v)
             e == Entry(M, v, s, value)
         IN  IF value.err # NoError THEN Err("InvalidData", item, value.src, <<e>>)
             ELSE LET r == decode_vec(M, len - 1, Append(item, value.self),
                                      value.src, v)
                  IN  [r EXCEPT !.calls = <<e>> \o r.calls]

\* for _ in 0..len { item.push(M::decode_from(src, version)?) }
decode_vec(M, len, item, s, v) ==
    IF len <= 0 THEN Ok(item, s, <<>>)
    ELSE LET value == decode_from(M, s, v)
             e == Entry(M, v, s, value)
         IN  IF value.err # NoError THEN Err(value.err, item, value.src, <<e>>)
             ELSE LET r == decode_vec(M, len - 1, Append(item, value.self),
                                      value.src, v)
                  IN  [r EXCEPT !.calls = <<e>> \o r.calls]

\* Vec::decode emptying its target before it pushes
Vec_decode_clear(M, self, s, v) ==
    LET len == decode_from(<<"i32">>, s, v)
        e == Entry(<<"i32">>, v, s, len)
    IN  IF len.err # NoError THEN Err(len.err, self, len.src, <<e>>)
        ELSE IF len.self < 1 THEN Ok(<<>>, len.src, <<e>>)
        ELSE LET r == decode_vec(M, len.self, <<>>, len.src, v)
             IN  [r EXCEPT !.calls = <<e>> \o r.calls]

Vec_decode(M, self, s, v) ==
    LET len == decode_from(<<"i32">>, s, v)
        e == Entry(<<"i32">>, v, s, len)
    IN  IF len.err # NoError THEN Err(len.err, self, len.src, <<e>>)
        ELSE IF len.self < 1 THEN Ok(self, len.src, <<e>>)
        ELSE LET r == decode_vec(M, len.self, self, len.src, v)
             IN  [r EXCEPT !.calls = <<e>> \o r.calls]

\* mutant: the presence flag is read the wrong way round
Option_decode_flip(M, self, s, v) ==
    LET some == decode_from(<<"bool">>, s, v)
        e == Entry(<<"bool">>, v, s, some)
    IN  IF some.err # NoError THEN Err(some.err, self, some.src, <<e>>)
        ELSE IF ~some.self
        THEN LET value == decode_from(M, some.src, v)
                 f == Entry(M, v, some.src, value)
             IN  IF value.err # NoError
                 THEN Err(value.err, self, value.src, <<e, f>>)
                 ELSE Ok(<<value.self>>, value.src, <<e, f>>)
        ELSE Ok(<<>>, some.src, <<e>>)

Option_decode(M, self, s, v) ==
    LET some == decode_from(<<"bool">>, s, v)
        e == Entry(<<"bool">>, v, s, some)
    IN  IF some.err # NoError THEN Err(some.err, self, some.src, <<e>>)
        ELSE IF some.self
        THEN LET value == decode_from(M, some.src, v)
                 f == Entry(M, v, some.src, value)
             IN  IF value.err # NoError
                 THEN Err(value.err, self, value.src, <<e, f>>)
                 ELSE Ok(<<value.self>>, value.src, <<e, f>>)
        ELSE Ok(<<>>, some.src, <<e>>)

\* mutant: a key already present keeps its value
insert_keep(map, key, value) ==
    [k \in DOMAIN map \cup {key} |->
        IF k \in DOMAIN map THEN map[k] ELSE value]

\* BTreeMap::insert
insert(map, key, value) ==
    [k \in DOMAIN map \cup {key} |-> IF k = key THEN value ELSE map[k]]

\* for _i in 0..len { map.insert(K::decode_from(..)?, V::decode_from(..)?) }
RECURSIVE BTreeMap_loop(_, _, _, _, _, _)
BTreeMap_loop(K, V, len, map, s, v) ==
    IF len <= 0 THEN Ok(map, s, <<>>)
    ELSE LET key == decode_from(K, s, v)
             e == Entry(K, v, s, key)
         IN  IF key.err # NoError THEN Err(key.err, map, key.src, <<e>>)
             ELSE LET value == decode_from(V, key.src, v)
                      f == Entry(V, v, key.src, value)
                  IN  IF value.err # NoError
                      THEN Err(value.err, map, value.src, <<e, f>>)
                      ELSE LET r == BTreeMap_loop(K, V, len - 1,
                                        insert(map, key.self, value.self),
                                        value.src, v)
                           IN  [r EXCEPT !.calls = <<e, f>> \o r.calls]

BTreeMap_decode(K, V, self, s, v) ==
    LET len == decode_from(<<"u16">>, s, v)
        e == Entry(<<"u16">>, v, s, len)
    IN  IF len.err # NoError THEN Err(len.err, self, len.src, <<e>>)
        ELSE LET r == BTreeMap_loop(K, V, len.self, <<>>, len.src, v)
             IN  IF r.err # NoError
                 THEN Err(r.err, self, r.src, <<e>> \o r.calls)
                 ELSE Ok(r.self, r.src, <<e>> \o r.calls)

----------------------------------------------------------------------------
(* Composites: TestRecord, CommonCreateRequest, ObjectCreateRequest *)

\* mutant: value2 is gated one version too early
TestRecord_decode_early(self, s, v) ==
    LET value == decode_from(<<"i8">>, s, 0)
        e == Entry(<<"i8">>, 0, s, value)
    IN  IF value.err # NoError THEN Err(value.err, self, value.src, <<e>>)
        ELSE IF v >= 1
        THEN LET value2 == decode_from(<<"i8">>, value.src, 0)
                 f == Entry(<<"i8">>, 0, value.src, value2)
             IN  IF value2.err # NoError
                 THEN Err(value2.err, self, value2.src, <<e, f>>)
                 ELSE Ok([value |-> value.self, value2 |-> value2.self],
                         value2.src, <<e, f>>)
        ELSE Ok([value |-> value.self, value2 |-> 0], value.src, <<e>>)

TestRecord_decode(self, s, v) ==
    LET value == decode_from(<<"i8">>, s, 0)
        e == Entry(<<"i8">>, 0, s, value)
    IN  IF value.err # NoError THEN Err(value.err, self, value.src, <<e>>)
        ELSE IF v > 1
        THEN LET value2 == decode_from(<<"i8">>, value.src, 0)
                 f == Entry(<<"i8">>, 0, value.src, value2)
             IN  IF value2.err # NoError
                 THEN Err(value2.err, self, value2.src, <<e, f>>)
                 ELSE Ok([value |-> value.self, value2 |-> value2.self],
                         value2.src, <<e, f>>)
        ELSE Ok([value |-> value.self, value2 |-> 0], value.src, <<e>>)

\* #[derive(Decoder)]: the fields are decoded in place, in declaration order,
\* a field with min_version only when version >= min_version
CommonCreateRequest_decode(self, s, v) ==
    LET name == Decode(<<"String">>, self.name, s, v)
        e == Entry(<<"String">>, v, s, name)
        s1 == [self EXCEPT !.name = name.self]
    IN  IF name.err # NoError THEN Err(name.err, s1, name.src, <<e>>)
        ELSE
        LET dry_run == Decode(<<"bool">>, self.dry_run, name.src, v)
            f == Entry(<<"bool">>, v, name.src, dry_run)
            s2 == [s1 EXCEPT !.dry_run = dry_run.self]
        IN  IF dry_run.err # NoError THEN Err(dry_run.err, s2, dry_run.src, <<e, f>>)
            ELSE IF v >= 7
            THEN LET timeout == Decode(<<"Option", "u32">>, self.timeout,
                                       dry_run.src, v)
                     g == Entry(<<"Option", "u32">>, v, dry_run.src, timeout)
                     s3 == [s2 EXCEPT !.timeout = timeout.self]
                 IN  IF timeout.err # NoError
                     THEN Err(timeout.err, s3, timeout.src, <<e, f, g>>)
                     ELSE Ok(s3, timeout.src, <<e, f, g>>)
            ELSE Ok(s2, dry_run.src, <<e, f>>)

\* one arm of the match in ObjectCreateRequest::decode
decode_variant(variant, self, typ, tag, v) ==
    LET request == decode_from(SpecType(variant), typ.src, v)
        f == Entry(SpecType(variant), v, typ.src, request)
    IN  IF request.err # NoError
        THEN Err(request.err, self, request.src, <<tag, f>>)
        ELSE Ok([variant |-> variant, spec |-> request.self], request.src,
                <<tag, f>>)

ObjectCreateRequest_decode(self, s, v) ==
    LET typ == decode_from(<<"u8">>, s, v)
        e == Entry(<<"u8">>, v, s, typ)
    IN  IF typ.err # NoError THEN Err(typ.err, self, typ.src, <<e>>)
        ELSE CASE typ.self = CREATE_TYPE("Topic") ->
                    decode_variant("Topic", self, typ, e, v)
               [] typ.self = CREATE_TYPE("TableFormat") ->
                    decode_variant("TableFormat", self, typ, e, v)
               [] typ.self = CREATE_TYPE("CustomSpu") ->
                    decode_variant("CustomSpu", self, typ, e, v)
               [] typ.self = CREATE_TYPE("SpuGroup") ->
                    decode_variant("SpuGroup", self, typ, e, v)
               [] typ.self = CREATE_TYPE("SmartModule") ->
                    decode_variant("SmartModule", self, typ, e, v)
               [] typ.self = CREATE_TYPE("ManagedConnector") ->
                    decode_variant("ManagedConnector", self, typ, e, v)
               [] typ.self = CREATE_TYPE("DerivedStream") ->
                    decode_variant("DerivedStream", self, typ, e, v)
               [] OTHER -> Err("InvalidData", self, typ.src, <<e>>)

\* Decoder::decode, dispatched on the type
Decode(t, self, s, v) ==
    CASE t[1] = "bool" -> bool_decode(self, s, v)
      [] t[1] = "i8" -> i8_decode(self, s, v)
      [] t[1] = "u8" -> u8_decode(self, s, v)
      [] t[1] = "i16" -> i16_decode(self, s, v)
      [] t[1] = "u16" -> u16_decode(self, s, v)
      [] t[1] = "i32" -> i32_decode(self, s, v)
      [] t[1] = "u32" -> u32_decode(self, s, v)
      [] t[1] = "u64" -> u64_decode(self, s, v)
      [] t[1] = "i64" -> i64_decode(self, s, v)
      [] t[1] = "String" -> String_decode(self, s, v)
      [] t[1] = "Vec" -> Vec_decode(Tail(t), self, s, v)
      [] t[1] = "Option" -> Option_decode(Tail(t), self, s, v)
      [] t[1] = "BTreeMap" ->
            BTreeMap_decode(<<t[2]>>, SubSeq(t, 3, Len(t)), self, s, v)
      [] t[1] = "TestRecord" -> TestRecord_decode(self, s, v)
      [] t[1] = "CommonCreateRequest" -> CommonCreateRequest_decode(self, s, v)
      [] t[1] = "ObjectCreateRequest" -> ObjectCreateRequest_decode(self, s, v)

----------------------------------------------------------------------------
(* Encoder: the payload encodings, and impl Encoder for ObjectCreateRequest *)

\* the two's complement big-endian bytes of an integer, n bytes wide
RECURSIVE to_be_bytes(_, _)
to_be_bytes(x, n) ==
    IF n = 0 THEN <<>> ELSE Append(to_be_bytes(x \div 256, n - 1), x % 256)

RECURSIVE Encode(_, _, _)
RECURSIVE EncodeAll(_, _, _)

\* the encodings of the elements of a Vec, in order
EncodeAll(t, items, v) ==
    IF items = <<>> THEN <<>>
    ELSE Encode(t, Head(items), v) \o EncodeAll(t, Tail(items), v)

\* Encoder::encode of a payload type: the bytes it appends
Encode(t, val, v) ==
    CASE t[1] = "bool" -> IF val THEN <<1>> ELSE <<0>>
      [] t[1] = "u8" -> to_be_bytes(val, 1)
      [] t[1] = "u16" -> to_be_bytes(val, 2)
      [] t[1] = "i32" -> to_be_bytes(val, 4)
      [] t[1] = "String" -> to_be_bytes(Len(val), 2) \o val
      [] t[1] = "Vec" -> to_be_bytes(Len(val), 4) \o EncodeAll(Tail(t), val, v)
      [] t[1] = "Option" ->
            IF val = <<>> THEN <<0>> ELSE <<1>> \o Encode(Tail(t), val[1], v)

RECURSIVE WriteSize(_, _, _)
RECURSIVE WriteSizeAll(_, _, _)

WriteSizeAll(t, items, v) ==
    IF items = <<>> THEN 0
    ELSE WriteSize(t, Head(items), v) + WriteSizeAll(t, Tail(items), v)

\* Encoder::write_size of a payload type
WriteSize(t, val, v) ==
    CASE t[1] \in {"bool", "u8"} -> 1
      [] t[1] = "u16" -> 2
      [] t[1] = "i32" -> 4
      [] t[1] = "String" -> 2 + Len(val)
      [] t[1] = "Vec" -> 4 + WriteSizeAll(Tail(t), val, v)
      [] t[1] = "Option" ->
            IF val = <<>> THEN 1 ELSE 1 + WriteSize(Tail(t), val[1], v)

\* mutant: the tags of SmartModule and ManagedConnector are exchanged
type_value_swapped(self) ==
    CASE self.variant = "Topic" -> CREATE_TYPE("Topic")
      [] self.variant = "CustomSpu" -> CREATE_TYPE("CustomSpu")
      [] self.variant = "SmartModule" -> CREATE_TYPE("ManagedConnector")
      [] self.variant = "ManagedConnector" -> CREATE_TYPE("SmartModule")
      [] self.variant = "SpuGroup" -> CREATE_TYPE("SpuGroup")
      [] self.variant = "TableFormat" -> CREATE_TYPE("TableFormat")
      [] self.variant = "DerivedStream" -> CREATE_TYPE("DerivedStream")

type_value(self) ==
    CASE self.variant = "Topic" -> CREATE_TYPE("Topic")
      [] self.variant = "CustomSpu" -> CREATE_TYPE("CustomSpu")
      [] self.variant = "SmartModule" -> CREATE_TYPE("SmartModule")
      [] self.variant = "ManagedConnector" -> CREATE_TYPE("ManagedConnector")
      [] self.variant = "SpuGroup" -> CREATE_TYPE("SpuGroup")
      [] self.variant = "TableFormat" -> CREATE_TYPE("TableFormat")
      [] self.variant = "DerivedStream" -> CREATE_TYPE("DerivedStream")

\* mutant: the tag byte is not counted
ObjectCreateRequest_write_size_untagged(self, v) ==
    WriteSize(SpecType(self.variant), self.spec, v)

ObjectCreateRequest_write_size(self, v) ==
    LET type_size == WriteSize(<<"u8">>, 0, v)
    IN  type_size + WriteSize(SpecType(self.variant), self.spec, v)

\* BufMut: a destination d holds the bytes written, d.buf, and has room for
\* d.cap bytes in all
remaining_mut(d) == d.cap - Len(d.buf)

\* put_u8, put_u16, put_i32, put_slice: the bytes are appended
put(d, bytes) == [d EXCEPT !.buf = @ \o bytes]

EncodeOk(d) == [err |-> NoError, dest |-> d]

EncodeErr(kind, d) == [err |-> kind, dest |-> d]

\* a value of fixed width: nothing is written unless there is room for it
encode_fixed(bytes, d) ==
    IF remaining_mut(d) < Len(bytes) THEN EncodeErr("UnexpectedEof", d)
    ELSE EncodeOk(put(d, bytes))

RECURSIVE encode(_, _, _, _)
RECURSIVE encode_all(_, _, _, _)

\* for v in self { v.encode(dest, version)?; }
encode_all(t, items, d, v) ==
    IF items = <<>> THEN EncodeOk(d)
    ELSE LET r == encode(t, Head(items), d, v)
         IN  IF r.err # NoError THEN r
             ELSE encode_all(t, Tail(items), r.dest, v)

\* Encoder::encode of a payload type into d: the error, and d afterwards
encode(t, val, d, v) ==
    CASE t[1] = "bool" -> encode_fixed(IF val THEN <<1>> ELSE <<0>>, d)
      [] t[1] = "u8" -> encode_fixed(to_be_bytes(val, 1), d)
      [] t[1] = "u16" -> encode_fixed(to_be_bytes(val, 2), d)
      [] t[1] = "i32" -> encode_fixed(to_be_bytes(val, 4), d)
      [] t[1] = "String" -> encode_fixed(to_be_bytes(Len(val), 2) \o val, d)
      [] t[1] = "Vec" ->
            LET len == encode_fixed(to_be_bytes(Len(val), 4), d)
            IN  IF len.err # NoError THEN len
                ELSE encode_all(Tail(t), val, len.dest, v)
      [] t[1] = "Option" ->
            IF val = <<>> THEN encode(<<"bool">>, FALSE, d, v)
            ELSE LET some == encode(<<"bool">>, TRUE, d, v)
                 IN  IF some.err # NoError THEN some
                     ELSE encode(Tail(t), val[1], some.dest, v)

\* self.encode(dest, version): the error, and the destination afterwards
ObjectCreateRequest_encode(self, d, v) ==
    LET typ == encode(<<"u8">>, type_value(self), d, v)
    IN  IF typ.err # NoError THEN typ
        ELSE encode(SpecType(self.variant), self.spec, typ.dest, v)

----------------------------------------------------------------------------
(* The state machine: a caller opens a cursor on an input buffer and makes *)
(* one top-level decode_from call on it (the nested calls all share that   *)
(* cursor); or it encodes a request, opens a cursor on the bytes written   *)
(* and decodes from it.                                                    *)

\* the most bytes a destination has room for
MaxCapacity == 8

\* the room of the destination a request is encoded into
Capacities == 0..MaxCapacity

\* payload values a request is encoded with
SpecValues(variant) ==
    CASE variant \in {"Topic", "ManagedConnector"} -> {<<>>, <<1>>, <<2, 1>>}
      [] variant = "CustomSpu" -> {0, 16, -1, 16777217}
      [] variant = "SmartModule" -> {<<>>, <<255>>, <<1, 2>>}
      [] variant = "SpuGroup" -> {0, 2, 65535}
      [] variant = "TableFormat" -> {<<>>, <<0>>, <<258>>}
      [] variant = "DerivedStream" -> {FALSE, TRUE}

Init ==
    /\ src \in Inputs
    /\ op = "new"
    /\ ty = <<>>
    /\ version = 0
    /\ before = src
    /\ res = [err |-> NoError, self |-> FALSE, calls |-> <<>>]
    /\ target = FALSE
    /\ dest = [buf |-> <<>>, cap |-> 0]
    /\ enc = <<>>

\* T::decode_from(&mut src, v), the top-level call a caller makes on a cursor
\* it has just opened
Call(t, v) ==
    LET r == decode_from(t, src, v)
    IN  /\ op \in {"new", "cursor"}
        /\ op' = "decode_from"
        /\ ty' = t
        /\ version' = v
        /\ before' = src
        /\ src' = r.src
        /\ res' = [err |-> r.err, self |-> r.self, calls |-> r.calls]
        /\ target' = Default(t)
        /\ UNCHANGED <<dest, enc>>

\* T::decode_varint_from(&mut src) on a cursor just opened, r being its result
CallVarint(t, r) ==
    /\ op \in {"new", "cursor"}
    /\ op' = "decode_varint_from"
    /\ ty' = t
    /\ before' = src
    /\ src' = r.src
    /\ res' = [err |-> r.err, self |-> r.self, calls |-> r.calls]
    /\ UNCHANGED <<version, target, dest, enc>>

DecodeVarintI64 == CallVarint(<<"i64">>, i64_decode_varint_from(src))

DecodeVarintVecU8 == CallVarint(<<"Vec", "u8">>, Vec_u8_decode_varint_from(src))

DecodeVarintOptionVecU8 ==
    CallVarint(<<"Option", "Vec", "u8">>, Option_Vec_u8_decode_varint_from(src))

DecodeBool == \E v \in Versions : Call(<<"bool">>, v)

DecodeI8 == \E v \in Versions : Call(<<"i8">>, v)

DecodeU8 == \E v \in Versions : Call(<<"u8">>, v)

DecodeI16 == \E v \in Versions : Call(<<"i16">>, v)

DecodeU16 == \E v \in Versions : Call(<<"u16">>, v)

DecodeI32 == \E v \in Versions : Call(<<"i32">>, v)

DecodeU32 == \E v \in Versions : Call(<<"u32">>, v)

DecodeU64 == \E v \in Versions : Call(<<"u64">>, v)

DecodeI64 == \E v \in Versions : Call(<<"i64">>, v)

DecodeString == \E v \in Versions : Call(<<"String">>, v)

DecodeVec == \E v \in Versions, M \in VecElems : Call(<<"Vec">> \o M, v)

DecodeOption == \E v \in Versions, M \in OptionElems : Call(<<"Option">> \o M, v)

DecodeBTreeMap == \E v \in Versions, t \in MapTypes : Call(t, v)

DecodeTestRecord == \E v \in Versions : Call(<<"TestRecord">>, v)

DecodeCommonCreateRequest == \E v \in Versions : Call(<<"CommonCreateRequest">>, v)

DecodeObjectCreateRequest == \E v \in Versions : Call(<<"ObjectCreateRequest">>, v)

\* request.write_size(v), then request.encode(&mut dest, v) on an empty dest
\* with room for cap bytes
EncodeObjectCreateRequest ==
    /\ op = "new"
    /\ src = <<>>
    /\ \E variant \in Variants, v \in Versions, cap \in Capacities :
         \E spec \in SpecValues(variant) :
            LET self == [variant |-> variant, spec |-> spec]
                r == ObjectCreateRequest_encode(
                         self, [buf |-> <<>>, cap |-> cap], v)
            IN  /\ dest' = r.dest
                /\ enc' = <<[self |-> self, version |-> v, err |-> r.err,
                             size |-> ObjectCreateRequest_write_size(self, v)]>>
                /\ version' = v
    /\ op' = "encode"
    /\ UNCHANGED <<src, ty, before, res, target>>

\* Cursor::new(&dest): the caller reads back what was written
NewCursor ==
    /\ op = "encode"
    /\ src' = dest.buf
    /\ before' = dest.buf
    /\ op' = "cursor"
    /\ UNCHANGED <<ty, version, res, target, dest, enc>>

Next ==
    \/ DecodeBool
    \/ DecodeI8
    \/ DecodeU8
    \/ DecodeI16
    \/ DecodeU16
    \/ DecodeI32
    \/ DecodeU32
    \/ DecodeU64
    \/ DecodeI64
    \/ DecodeString
    \/ DecodeVec
    \/ DecodeOption
    \/ DecodeBTreeMap
    \/ DecodeTestRecord
    \/ DecodeCommonCreateRequest
    \/ DecodeObjectCreateRequest
    \/ DecodeVarintI64
    \/ DecodeVarintVecU8
    \/ DecodeVarintOptionVecU8
    \/ EncodeObjectCreateRequest
    \/ NewCursor

Spec == Init /\ [][Next]_vars

----------------------------------------------------------------------------
(* A sequence of in-place decode calls of the fixed-width types and bool on
   one shared cursor, each into a value the caller already holds *)

\* the longest buffer of a sequence of calls
MaxChain == 8

ChainBytes == {0, 1, 255}

ChainVersions == {0, 7}

ChainTypes == {"bool", "i8", "u8", "i16", "u16", "i32", "u32", "u64", "i64"}

\* a value other than the default, held by the caller before the call
Populated(t) ==
    CASE t[1] = "bool" -> TRUE
      [] t[1] \in {"u8", "u16"} -> 7
      [] t[1] \in {"i8", "i16", "i32"} -> -7
      [] t[1] = "u32" -> <<0, 7>>
      [] t[1] = "u64" -> <<0, 0, 0, 7>>
      [] t[1] = "i64" -> <<-1, 65535, 65535, 65529>>

ChainInit ==
    /\ src \in SeqsUpTo(ChainBytes, MaxChain)
    /\ op = "new"
    /\ ty = <<>>
    /\ version = 0
    /\ before = src
    /\ res = [err |-> NoError, self |-> FALSE, calls |-> <<>>]
    /\ target = FALSE
    /\ dest = [buf |-> <<>>, cap |-> 0]
    /\ enc = <<>>

\* value.decode(&mut src, v), wherever the calls before it left the cursor
ChainCall(t, v) ==
    LET r == Decode(t, Populated(t), src, v)
    IN  /\ op' = "decode"
        /\ ty' = t
        /\ version' = v
        /\ before' = src
        /\ src' = r.src
        /\ res' = [err |-> r.err, self |-> r.self, calls |-> r.calls]
        /\ target' = Populated(t)
        /\ UNCHANGED <<dest, enc>>

ChainBool == \E v \in ChainVersions : ChainCall(<<"bool">>, v)

ChainI8 == \E v \in ChainVersions : ChainCall(<<"i8">>, v)

ChainU8 == \E v \in ChainVersions : ChainCall(<<"u8">>, v)

ChainI16 == \E v \in ChainVersions : ChainCall(<<"i16">>, v)

ChainU16 == \E v \in ChainVersions : ChainCall(<<"u16">>, v)

ChainI32 == \E v \in ChainVersions : ChainCall(<<"i32">>, v)

ChainU32 == \E v \in ChainVersions : ChainCall(<<"u32">>, v)

ChainU64 == \E v \in ChainVersions : ChainCall(<<"u64">>, v)

ChainI64 == \E v \in ChainVersions : ChainCall(<<"i64">>, v)

ChainNext ==
    \/ ChainBool
    \/ ChainI8
    \/ ChainU8
    \/ ChainI16
    \/ ChainU16
    \/ ChainI32
    \/ ChainU32
    \/ ChainU64
    \/ ChainI64

SpecChain == ChainInit /\ [][ChainNext]_vars

----------------------------------------------------------------------------
(* In-place decode of a container or string the caller has already filled *)

\* the values a caller holds before the call
Held(t) ==
    CASE t = <<"Vec", "u8">> -> {<<7>>, <<7, 9>>}
      [] t = <<"Vec", "bool">> -> {<<TRUE>>}
      [] t = <<"Vec", "String">> -> {<<<<97>>>>}
      [] t = <<"String">> -> {<<97, 98>>}
      [] t = <<"Option", "u16">> -> {<<7>>}
      [] t = <<"Option", "String">> -> {<<<<97>>>>}
      [] t = <<"BTreeMap", "u8", "u8">> -> {insert(insert(<<>>, 1, 7), 9, 9)}
      [] t = <<"BTreeMap", "u8", "bool">> -> {insert(<<>>, 9, TRUE)}

\* value.decode(&mut src, v) on a cursor just opened, value being self
InPlaceCall(t, self, v) ==
    LET r == Decode(t, self, src, v)
    IN  /\ op = "new"
        /\ op' = "decode"
        /\ ty' = t
        /\ version' = v
        /\ before' = src
        /\ src' = r.src
        /\ res' = [err |-> r.err, self |-> r.self, calls |-> r.calls]
        /\ target' = self
        /\ UNCHANGED <<dest, enc>>

InPlaceVec ==
    \E v \in ChainVersions, M \in VecElems :
        \E self \in Held(<<"Vec">> \o M) : InPlaceCall(<<"Vec">> \o M, self, v)

InPlaceString ==
    \E v \in ChainVersions :
        \E self \in Held(<<"String">>) : InPlaceCall(<<"String">>, self, v)

InPlaceOption ==
    \E v \in ChainVersions, M \in OptionElems :
        \E self \in Held(<<"Option">> \o M) :
            InPlaceCall(<<"Option">> \o M, self, v)

InPlaceBTreeMap ==
    \E v \in ChainVersions, t \in MapTypes :
        \E self \in Held(t) : InPlaceCall(t, self, v)

InPlaceNext ==
    \/ InPlaceVec
    \/ InPlaceString
    \/ InPlaceOption
    \/ InPlaceBTreeMap

SpecInPlace == Init /\ [][InPlaceNext]_vars

----------------------------------------------------------------------------
(* The claims *)

FixedNames == {"i8", "u8", "i16", "u16", "i32", "u32", "i64", "u64"}

Width(n) ==
    CASE n \in {"i8", "u8"} -> 1
      [] n \in {"i16", "u16"} -> 2
      [] n \in {"i32", "u32"} -> 4
      [] n \in {"i64", "u64"} -> 8

IsSigned(n) == n \in {"i8", "i16", "i32", "i64"}

\* val is the integer whose W-byte big-endian (two's complement if signed)
\* representation is bytes; \div rounds down, so the digits of a negative
\* number are those of its two's complement
IsBigEndianOf(n, val, bytes) ==
    LET W == Width(n)
    IN  IF n \in {"u32", "u64", "i64"}
        THEN /\ Len(val) = W \div 2
             /\ \A j \in 1..(W \div 2) :
                  /\ bytes[2 * j - 1] = (val[j] \div 256) % 256
                  /\ bytes[2 * j] = val[j] % 256
                  /\ IF j = 1 /\ IsSigned(n)
                     THEN val[j] >= -32768 /\ val[j] <= 32767
                     ELSE val[j] >= 0 /\ val[j] <= 65535
        ELSE /\ \A i \in 1..W : bytes[i] = (val \div (256 ^ (W - i))) % 256
             /\ IF IsSigned(n)
                THEN val \div (256 ^ (W - 1)) \in -128..127
                ELSE val \div (256 ^ (W - 1)) \in 0..255

\* the last call was T::decode_from for the named kind of type
Decoded(kind) == op = "decode_from" /\ ty[1] = kind

\* every call of the log starts where the one before it stopped, the first
\* one at s, and reports what decode_from gives on the cursor it was given
LogConsistent(calls, s) ==
    \A i \in 1..Len(calls) :
        LET e == calls[i]
            r == decode_from(e.ty, e.before, e.version)
        IN  /\ e.before = IF i = 1 THEN s ELSE calls[i - 1].after
            /\ e.err = r.err
            /\ e.after = r.src
            /\ e.val = r.self

\* C1: decode_from of a fixed-width integer type of width W fails with
\* UnexpectedEof when fewer than W bytes remain; otherwise it succeeds,
\* consumes exactly W bytes and returns their big-endian interpretation
\* ([0,0,0,0x10] is the i32 16); no version gives another result.
C1_FixedWidthDecode ==
    /\ (op = "decode_from" /\ ty[1] \in FixedNames) =>
        LET W == Width(ty[1])
        IN  /\ Len(before) < W => res.err = "UnexpectedEof"
            /\ Len(before) >= W =>
                 /\ res.err = NoError
                 /\ Len(src) = Len(before) - W
                 /\ src = SubSeq(before, W + 1, Len(before))
                 /\ IsBigEndianOf(ty[1], res.self, SubSeq(before, 1, W))
            /\ \A v \in Versions :
                 LET r == decode_from(ty, before, v)
                 IN  r.err = res.err /\ r.src = src
                     /\ (r.err = NoError => r.self = res.self)
    /\ decode_from(<<"i32">>, <<0, 0, 0, 16>>, 0).self = 16

\* C1 witness: an i64 was decoded from eight bytes to a negative value
C1_Witness ==
    /\ Decoded("i64") /\ res.err = NoError
    /\ res.self[1] < 0 /\ res.self[4] > 0

\* C2: bool decode: no byte left is UnexpectedEof; byte 0 is false, byte 1 is
\* true, any other byte is InvalidData and never a boolean.
C2_BoolDecode ==
    Decoded("bool") =>
        IF before = <<>> THEN res.err = "UnexpectedEof"
        ELSE CASE before[1] = 0 ->
                    res.err = NoError /\ res.self = FALSE /\ src = Tail(before)
               [] before[1] = 1 ->
                    res.err = NoError /\ res.self = TRUE /\ src = Tail(before)
               [] OTHER -> res.err = "InvalidData"

\* C2 witness: a bool decode met a byte that is neither 0 nor 1
C2_Witness == Decoded("bool") /\ before # <<>> /\ before[1] = 255

\* the 32-bit signed big-endian number in the first four bytes of b
CountOf(b) ==
    (IF b[1] >= 128 THEN b[1] - 256 ELSE b[1]) * 16777216
        + b[2] * 65536 + b[3] * 256 + b[4]

\* C3: Vec decode reads a 32-bit signed count C; C < 1 gives the empty
\* sequence and consumes the four count bytes only; C >= 1 decodes exactly C
\* elements in wire order (length C, element i is the i-th decoded), and
\* fails with the element's error if one of those decodes fails.
C3_VecDecode ==
    (Decoded("Vec") /\ Len(before) >= 4) =>
        LET C == CountOf(before)
            elems == Tail(res.calls)
        IN  /\ LogConsistent(res.calls, before)
            /\ res.calls[1].ty = <<"i32">>
            /\ \A i \in 1..Len(elems) : elems[i].ty = Tail(ty)
            /\ C < 1 =>
                 /\ res.err = NoError /\ res.self = <<>> /\ elems = <<>>
                 /\ src = SubSeq(before, 5, Len(before))
            /\ C >= 1 =>
                 /\ Len(elems) >= 1 /\ Len(elems) <= C
                 /\ \A i \in 1..(Len(elems) - 1) : elems[i].err = NoError
                 /\ LET last == elems[Len(elems)]
                    IN  IF last.err # NoError
                        THEN res.err = last.err
                        ELSE /\ res.err = NoError
                             /\ Len(elems) = C
                             /\ Len(res.self) = C
                             /\ \A i \in 1..C : res.self[i] = elems[i].val
                             /\ src = last.after

\* C3 witness: two different elements were decoded into a Vec<u8>
C3_Witness ==
    /\ Decoded("Vec") /\ ty = <<"Vec", "u8">> /\ res.err = NoError
    /\ Len(res.self) = 2 /\ res.self[1] # res.self[2]

\* the 16-bit signed big-endian number in the first two bytes of b
LengthOf(b) == (IF b[1] >= 128 THEN b[1] - 256 ELSE b[1]) * 256 + b[2]

\* C4 as claimed: String decode reads a 16-bit signed length L
\* (UnexpectedEof if fewer than two bytes remain); L <= 0 gives the empty
\* string and consumes the two length bytes only; L > 0 with at least L bytes
\* left succeeds with exactly those L bytes and consumes 2+L bytes; L > 0
\* with fewer than L bytes left fails with UnexpectedEof.
C4_StringDecode_AsClaimed ==
    Decoded("String") =>
        IF Len(before) < 2 THEN res.err = "UnexpectedEof"
        ELSE LET L == LengthOf(before)
                 left == Len(before) - 2
             IN  /\ L <= 0 =>
                      /\ res.err = NoError /\ res.self = <<>>
                      /\ src = SubSeq(before, 3, Len(before))
                 /\ (L > 0 /\ left >= L) =>
                      /\ res.err = NoError
                      /\ res.self = SubSeq(before, 3, 2 + L)
                      /\ src = SubSeq(before, 3 + L, Len(before))
                 /\ (L > 0 /\ left < L) => res.err = "UnexpectedEof"

\* C4 amended: as claimed when the bytes read for the payload (the next L
\* bytes, or all that remain if fewer) are valid UTF-8; when they are not,
\* the decode fails with InvalidData, whether or not L bytes were there.
C4_StringDecode ==
    Decoded("String") =>
        IF Len(before) < 2 THEN res.err = "UnexpectedEof"
        ELSE LET L == LengthOf(before)
                 left == Len(before) - 2
                 read == SubSeq(before, 3, 2 + (IF L < left THEN L ELSE left))
             IN  /\ L <= 0 =>
                      /\ res.err = NoError /\ res.self = <<>>
                      /\ src = SubSeq(before, 3, Len(before))
                 /\ (L > 0 /\ ~Utf8Valid(read)) => res.err = "InvalidData"
                 /\ (L > 0 /\ Utf8Valid(read) /\ left >= L) =>
                      /\ res.err = NoError
                      /\ res.self = SubSeq(before, 3, 2 + L)
                      /\ src = SubSeq(before, 3 + L, Len(before))
                 /\ (L > 0 /\ Utf8Valid(read) /\ left < L) =>
                      res.err = "UnexpectedEof"

\* C4 witness: a two-byte string was decoded and bytes were left unread
C4_Witness ==
    /\ Decoded("String") /\ res.err = NoError
    /\ Len(res.self) = 2 /\ src # <<>>

\* C5: Option decode reads one presence byte: 0 gives None and consumes that
\* byte only; 1 gives Some(v), v being what decoding one T from the bytes
\* that follow gives ([1,0,0x10] as Option<u16> is Some(16)); a missing
\* presence byte, or one outside {0,1}, makes the decode fail.
C5_OptionDecode ==
    /\ Decoded("Option") =>
        IF before = <<>> THEN res.err = "UnexpectedEof"
        ELSE CASE before[1] = 0 ->
                    res.err = NoError /\ res.self = <<>> /\ src = Tail(before)
               [] before[1] = 1 ->
                    LET inner == decode_from(Tail(ty), Tail(before), version)
                    IN  IF inner.err = NoError
                        THEN /\ res.err = NoError
                             /\ res.self = <<inner.self>>
                             /\ src = inner.src
                        ELSE res.err = inner.err
               [] OTHER -> res.err # NoError
    /\ decode_from(<<"Option", "u16">>, <<1, 0, 16>>, 0).self = <<16>>

\* C5 witness: an Option<u16> was decoded to Some of a non-zero value
C5_Witness ==
    /\ Decoded("Option") /\ ty = <<"Option", "u16">> /\ res.err = NoError
    /\ res.self # <<>> /\ res.self[1] > 0

\* C6: Map decode reads a 16-bit unsigned count C, then exactly C key/value
\* pairs in sequence; a duplicate key is no error, the later pair overwrites
\* the earlier: the map holds, for each distinct key on the wire, the value
\* of its last occurrence, and has as many entries as distinct keys.
C6_MapDecode ==
    (Decoded("BTreeMap") /\ Len(before) >= 2) =>
        LET C == before[1] * 256 + before[2]
            pairs == Tail(res.calls)
            key(j) == pairs[2 * j - 1].val
            value(j) == pairs[2 * j].val
            keys == {key(j) : j \in 1..C}
            lastOf(k) == CHOOSE j \in 1..C :
                            key(j) = k /\ \A i \in (j + 1)..C : key(i) # k
        IN  /\ LogConsistent(res.calls, before)
            /\ res.calls[1].ty = <<"u16">>
            /\ \A i \in 1..Len(pairs) :
                 pairs[i].ty = IF i % 2 = 1 THEN <<ty[2]>> ELSE <<ty[3]>>
            /\ Len(pairs) <= 2 * C
            /\ res.err = NoError =>
                 /\ Len(pairs) = 2 * C
                 /\ \A i \in 1..Len(pairs) : pairs[i].err = NoError
                 /\ src = res.calls[Len(res.calls)].after
                 /\ DOMAIN res.self = keys
                 /\ \A k \in keys : res.self[k] = value(lastOf(k))
                 /\ Cardinality(DOMAIN res.self) = Cardinality(keys)

\* C6 witness: a map was decoded from two pairs with the same key and
\* different values
C6_Witness ==
    /\ Decoded("BTreeMap") /\ res.err = NoError /\ Len(res.calls) = 5
    /\ res.calls[2].val = res.calls[4].val
    /\ res.calls[3].val # res.calls[5].val

\* C7: decoding the bytes encode produced for a request of any of the seven
\* variants, with the version it was encoded with, gives the same variant
\* with an equal payload; a leading tag byte that is the CREATE_TYPE of no
\* variant fails with InvalidData and never falls back to a default variant.
C7_TaggedUnion ==
    Decoded("ObjectCreateRequest") =>
        /\ (enc # <<>> /\ enc[1].err = NoError /\ before = dest.buf
                /\ version = enc[1].version) =>
             /\ res.err = NoError
             /\ res.self.variant = enc[1].self.variant
             /\ res.self.spec = enc[1].self.spec
             /\ src = <<>>
        /\ (before # <<>> /\ \A x \in Variants : before[1] # CREATE_TYPE(x)) =>
             res.err = "InvalidData"

\* C7 witness: an encoded SmartModule request was decoded from its bytes
C7_Witness ==
    /\ Decoded("ObjectCreateRequest") /\ enc # <<>> /\ before = dest.buf
    /\ enc[1].err = NoError
    /\ version = enc[1].version /\ enc[1].self.variant = "SmartModule"
    /\ enc[1].self.spec # <<>>

\* C8: write_size of a request is 1, the tag byte, plus the write_size of the
\* active variant, and it is the number of bytes encode appends: the tag
\* byte type_value() and then the encoding of the active variant. (encode
\* returns Ok exactly when the destination has room for that many bytes.)
C8_WriteSize ==
    enc # <<>> =>
        LET self == enc[1].self
            t == SpecType(self.variant)
        IN  /\ enc[1].size = 1 + WriteSize(t, self.spec, enc[1].version)
            /\ enc[1].err = NoError <=> enc[1].size <= dest.cap
            /\ enc[1].err = NoError =>
                 /\ enc[1].size = Len(dest.buf)
                 /\ dest.buf[1] = type_value(self)
                 /\ Tail(dest.buf) = Encode(t, self.spec, enc[1].version)

\* C8 witness: a SmartModule request with a two-element payload was encoded
C8_Witness ==
    /\ enc # <<>> /\ op = "encode" /\ enc[1].err = NoError
    /\ enc[1].self.variant = "SmartModule" /\ Len(enc[1].self.spec) = 2

\* C9: a field gated at a minimum version is left at its default, and no
\* byte is consumed for it, under a lower version; from that version on it is
\* decoded from the bytes that follow. TestRecord.value2 is gated at 2
\* (version 0 on [6] gives (6, 0) and consumes one byte, version 2 on [6, 9]
\* gives (6, 9)); CommonCreateRequest.timeout is on the wire from version 7.
C9_VersionGate ==
    /\ (Decoded("TestRecord") /\ before # <<>>) =>
         LET first == decode_from(<<"i8">>, before, 0)
         IN  IF version < 2
             THEN /\ res.err = NoError
                  /\ res.self = [value |-> first.self, value2 |-> 0]
                  /\ src = Tail(before)
             ELSE LET second == decode_from(<<"i8">>, Tail(before), 0)
                  IN  /\ res.err = second.err
                      /\ res.err = NoError =>
                           /\ res.self = [value |-> first.self,
                                          value2 |-> second.self]
                           /\ src = Tail(Tail(before))
    /\ (Decoded("CommonCreateRequest") /\ Len(res.calls) >= 2
            /\ res.calls[2].err = NoError) =>
         IF version < 7
         THEN /\ res.err = NoError
              /\ Len(res.calls) = 2
              /\ res.self.timeout = <<>>
              /\ src = res.calls[2].after
         ELSE LET timeout == decode_from(<<"Option", "u32">>,
                                         res.calls[2].after, version)
              IN  /\ res.err = timeout.err
                  /\ src = timeout.src
                  /\ res.err = NoError => res.self.timeout = timeout.self
    /\ LET r == decode_from(<<"TestRecord">>, <<6>>, 0)
       IN  r.err = NoError /\ r.self = [value |-> 6, value2 |-> 0] /\ r.src = <<>>
    /\ LET r == decode_from(<<"TestRecord">>, <<6, 9>>, 2)
       IN  r.err = NoError /\ r.self = [value |-> 6, value2 |-> 9]

\* C9 witness: a TestRecord was decoded under version 1 and left the byte
\* after value unread
C9_Witness ==
    /\ Decoded("TestRecord") /\ version = 1 /\ res.err = NoError
    /\ src # <<>> /\ src[1] # 0

Composites == {"Vec", "Option", "BTreeMap", "ObjectCreateRequest",
               "TestRecord", "CommonCreateRequest"}

\* C10: a container or composite decode stops at its first failing child
\* decode and returns that child's error, of the same kind; no child decode
\* runs after it and no further byte is consumed.
C10_FirstErrorPropagates ==
    (op = "decode_from" /\ ty[1] \in Composites) =>
        /\ LogConsistent(res.calls, before)
        /\ \A i \in 1..Len(res.calls) :
             res.calls[i].err # NoError =>
                /\ i = Len(res.calls)
                /\ res.err = res.calls[i].err
                /\ src = res.calls[i].after

\* C10 witness: the first of two bool elements was invalid: the Vec decode
\* failed with InvalidData and left the second element unread
C10_Witness ==
    /\ Decoded("Vec") /\ ty = <<"Vec", "bool">> /\ res.err = "InvalidData"
    /\ Len(res.calls) = 2 /\ src # <<>>

\* the last call was T::decode_varint_from for the type t
VarintDecoded(t) == op = "decode_varint_from" /\ ty = t

\* the bytes the varint at the front of b takes when at most four (the
\* first byte below 128 ends it), 0 otherwise
ShortVarintSize(b) ==
    IF \E k \in 1..4 : k <= Len(b) /\ b[k] < 128
    THEN CHOOSE k \in 1..4 :
            k <= Len(b) /\ b[k] < 128 /\ \A i \in 1..(k - 1) : b[i] >= 128
    ELSE 0

IsShortVarint(b) == ShortVarintSize(b) > 0

\* the unsigned number of a varint of k bytes: seven bits a byte, the least
\* significant first
RECURSIVE Base128(_, _)
Base128(b, k) ==
    IF k = 0 THEN 0 ELSE (b[1] % 128) + 128 * Base128(Tail(b), k - 1)

\* the zig-zag value of a varint of at most four bytes at the front of b:
\* an even n stands for n / 2, an odd n for -(n + 1) / 2
ShortVarint(b) ==
    LET n == Base128(b, ShortVarintSize(b))
    IN  IF n % 2 = 0 THEN n \div 2 ELSE -((n + 1) \div 2)

\* C11: Vec<u8>::decode_varint_from reads a zig-zag varint length L (byte
\* 0x7e is 63, byte 0x06 is 3); L < 1 gives the empty blob; L >= 1 with at
\* least L bytes left gives exactly the next L bytes and leaves the bytes
\* after them unread; L >= 1 with fewer than L bytes left fails with
\* UnexpectedEof (as [0x06, 0x64, 0x6f] does).
C11_VarintBlob ==
    /\ (VarintDecoded(<<"Vec", "u8">>) /\ IsShortVarint(before)) =>
         LET L == ShortVarint(before)
             k == ShortVarintSize(before)
             left == Len(before) - k
         IN  /\ L < 1 =>
                  /\ res.err = NoError /\ res.self = <<>>
                  /\ src = SubSeq(before, k + 1, Len(before))
             /\ (L >= 1 /\ left >= L) =>
                  /\ res.err = NoError
                  /\ res.self = SubSeq(before, k + 1, k + L)
                  /\ src = SubSeq(before, k + L + 1, Len(before))
             /\ (L >= 1 /\ left < L) => res.err = "UnexpectedEof"
    /\ (VarintDecoded(<<"i64">>) /\ IsShortVarint(before)) =>
         LET L == ShortVarint(before)
         IN  /\ res.err = NoError
             /\ res.self = <<IF L < 0 THEN -1 ELSE 0, IF L < 0 THEN 65535 ELSE 0,
                             (L \div 65536) % 65536, L % 65536>>
    /\ (VarintDecoded(<<"i64">>) /\ before = <<126>>) =>
         res.err = NoError /\ res.self = <<0, 0, 0, 63>>
    /\ (VarintDecoded(<<"i64">>) /\ before = <<6, 100, 111>>) =>
         res.err = NoError /\ res.self = <<0, 0, 0, 3>>
    /\ (VarintDecoded(<<"Vec", "u8">>) /\ before = <<6, 100, 111>>) =>
         res.err = "UnexpectedEof"

\* C11 witness: a blob of two bytes was read and a byte after it left unread
C11_Witness ==
    /\ VarintDecoded(<<"Vec", "u8">>) /\ res.err = NoError
    /\ Len(res.self) = 2 /\ src # <<>>

\* C12 as claimed: decoding the varint-length blob [0x06, 0x64, 0x6f, 0x67]
\* fails with a truncation error, its length prefix denoting six payload
\* bytes of which three are there.
C12_BlobTruncated_AsClaimed ==
    (VarintDecoded(<<"Vec", "u8">>) /\ before = <<6, 100, 111, 103>>) =>
        res.err = "UnexpectedEof"

\* C12 amended: decoding [0x06, 0x64, 0x6f, 0x67] succeeds with the three
\* byte blob [0x64, 0x6f, 0x67] and leaves nothing unread: the prefix 0x06 is
\* the zig-zag varint of 3, and three payload bytes are there.
C12_BlobOfThree ==
    (VarintDecoded(<<"Vec", "u8">>) /\ before = <<6, 100, 111, 103>>) =>
        /\ res.err = NoError
        /\ res.self = <<100, 111, 103>>
        /\ src = <<>>

\* C12 witness: [0x06, 0x64, 0x6f, 0x67] was decoded as a blob
C12_Witness ==
    /\ VarintDecoded(<<"Vec", "u8">>) /\ before = <<6, 100, 111, 103>>
    /\ Len(res.self) = 3

\* the bytes a fixed-width type or bool takes
ChainWidth(n) == IF n = "bool" THEN 1 ELSE Width(n)

\* the last call was an in-place decode of a fixed-width type or bool
Chained == op = "decode" /\ ty # <<>> /\ ty[1] \in ChainTypes

\* after a call of the sequence: with fewer bytes left than the type takes
\* the call failed with UnexpectedEof, the cursor is where it was and the
\* target is what it was; otherwise the cursor moved on by the width of the
\* type, never past the end
FailedCallFrame ==
    Chained =>
        LET W == ChainWidth(ty[1])
        IN  /\ res.err = "UnexpectedEof" <=> Len(before) < W
            /\ res.err = "UnexpectedEof" => src = before /\ res.self = target
            /\ res.err # "UnexpectedEof" =>
                 /\ W <= Len(before)
                 /\ src = SubSeq(before, W + 1, Len(before))
            /\ Len(src) <= Len(before)

\* a call of the sequence starts where the call before it stopped and does
\* not move the cursor back; after a failed call, a call of a type no wider
\* than the bytes left reads them
NarrowerCallReads ==
    (op' = "decode") =>
        /\ before' = src
        /\ Len(src') <= Len(src)
        /\ (Chained /\ res.err = "UnexpectedEof" /\ ChainWidth(ty'[1]) <= Len(src)) =>
             /\ res'.err # "UnexpectedEof"
             /\ Len(src') = Len(src) - ChainWidth(ty'[1])
             /\ (res'.err = NoError /\ ty'[1] \in FixedNames) =>
                  IsBigEndianOf(ty'[1], res'.self,
                                SubSeq(src, 1, ChainWidth(ty'[1])))

\* C13: in a sequence of fixed-width decode calls (bool, i8 .. u64) on one
\* shared cursor, a call that fails for insufficient input consumes no bytes
\* and leaves its target unchanged, so that a later decode of a narrower type
\* still reads the remaining bytes; the cursor position never decreases and
\* never passes the end of the buffer.
C13_FailedCallFrame == []FailedCallFrame /\ [][NarrowerCallReads]_vars

\* C13 witness: an i32 decode failed with three bytes left, all still there
C13_Witness ==
    /\ Chained /\ ty = <<"i32">> /\ res.err = "UnexpectedEof"
    /\ Len(before) = 3 /\ Len(src) = 3 /\ res.self = -7

\* the last call was an in-place decode of the named kind of type
InPlace(kind) == op = "decode" /\ ty # <<>> /\ ty[1] = kind

\* the values of the calls of a log that succeeded, from the i-th on
RECURSIVE Pushed(_, _)
Pushed(calls, i) ==
    IF i > Len(calls) THEN <<>>
    ELSE IF calls[i].err = NoError
         THEN <<calls[i].val>> \o Pushed(calls, i + 1)
         ELSE Pushed(calls, i + 1)

\* C14: in-place decode on a populated target: Vec::decode never removes
\* elements (afterwards, success or failure, the target is what it was
\* followed by the elements decoded so far: nothing for a count < 1, k
\* elements for a failure after k); String::decode with length <= 0 leaves
\* the string as it was; Option::decode and BTreeMap::decode replace the
\* whole target on success and leave it as it was on failure.
C14_InPlaceTargets ==
    /\ InPlace("Vec") =>
         /\ LogConsistent(res.calls, before)
         /\ res.self = target \o Pushed(res.calls, 2)
         /\ (Len(before) >= 4 /\ CountOf(before) < 1) =>
              res.err = NoError /\ res.self = target
         /\ Len(before) < 4 => res.err # NoError /\ res.self = target
         /\ (Len(before) >= 4 /\ CountOf(before) >= 1 /\ ty = <<"Vec", "u8">>) =>
              LET left == Len(before) - 4
                  k == IF CountOf(before) <= left THEN CountOf(before) ELSE left
              IN  /\ res.self = target \o SubSeq(before, 5, 4 + k)
                  /\ res.err = NoError <=> k = CountOf(before)
    /\ InPlace("String") =>
         /\ (Len(before) >= 2 /\ LengthOf(before) <= 0) =>
              /\ res.err = NoError
              /\ res.self = target
              /\ src = SubSeq(before, 3, Len(before))
         /\ res.err # NoError => res.self = target
    /\ (InPlace("Option") \/ InPlace("BTreeMap")) =>
         /\ res.err # NoError => res.self = target
         /\ res.err = NoError =>
              res.self = decode_from(ty, before, version).self
    /\ (InPlace("BTreeMap") /\ res.err = NoError) =>
         /\ 9 \notin DOMAIN res.self
         /\ \A k \in DOMAIN res.self : \E i \in 3..Len(before) : before[i] = k

\* C14 witness: a Vec<u8> holding elements was decoded into, the decode
\* failing after one element, which the vector now ends with
C14_Witness ==
    /\ InPlace("Vec") /\ ty = <<"Vec", "u8">> /\ res.err = "UnexpectedEof"
    /\ Len(target) = 2 /\ Len(res.self) = 3 /\ res.self[3] = before[5]

====
